---- MODULE Spec2Model ----
(***************************************************************************)
(* The per-team synchronization engine of the Atlas of Mosaics round: a    *)
(* key-value store with a per-key version (check-and-set), the appended    *)
(* list of edits kept in the Durable Object, the websocket sessions of a   *)
(* team, and garbage collection / rehydration of the Durable Object.       *)
(***************************************************************************)
EXTENDS Integers, Sequences, FiniteSets

\* ---------------------------------------------------------------- universe

\* One Durable Object namespace per team.
AllTeams == {"t1", "t2"}

Clients == {"c1", "c2"}

Keys == {"hexA", "hexB", "hexC"}

Values == {"red", "blue"}

\* Clients stop sending once the list of edits of their team has this length.
MaxLog == 1

\* No message is sent once more while this many are under way to its client.
MaxWire == 1

VARIABLES
    teams,      \* the teams that exist in this run
    lifecycle,  \* per team: "COLD", "HYDRATING", "WARM" or "SUSPENDED"
    store,      \* per team: the in-memory state, key -> {value, ver}
    log,        \* per team: the appended list of edits (durable)
    sessions,   \* per team: the clients whose websocket is open
    req,        \* per team and client: the client's latest update message
    cur,        \* per team: the update message being handled, and how far
    hydr,       \* per team: how many edits the rehydration has replayed
    out,        \* the messages sent by the latest step
    conc,       \* per team: pairs of clients whose up-to-date messages overlap
    retry,      \* per team: clients re-sending a message whose append failed
    susp,       \* per team: what was in memory at the latest garbage collection
    local,      \* per team and client: the state the client shows, key -> {value, ver}
    got,        \* per team and client: the messages the client has applied
    wire,       \* per team and client: the messages under way on the websocket
    dpc,        \* deploy script: the statement it is at
    pages,      \* deploy script: the pages/ worktree directory
    dist,       \* deploy script: the dist/ directory
    gitFileBackup, \* deploy script: the file .git.pages.backup
    pages0,     \* deploy script: pages/ as it was before the run
    cpc,        \* compaction script: the statement it is at
    opts,       \* compaction script: the options of the run
    todo,       \* compaction script: the images still to compress
    disk,       \* compaction script: the images and their .backup files
    buf,        \* compaction script: the outcome of compressing the image
    written     \* compaction script: the paths compressed bytes were written to

syncVars == <<teams, lifecycle, store, log, sessions, req, cur, hydr, out, conc,
              retry, susp>>

clientVars == <<local, got, wire>>

deployVars == <<dpc, pages, dist, gitFileBackup, pages0>>

compactVars == <<cpc, opts, todo, disk, buf, written>>

vars == <<syncVars, clientVars, deployVars, compactVars>>

\* ------------------------------------------------------- the versioned store

\* The store holds no key.
EmptyStore == [k \in {} |-> [value |-> "", ver |-> 0]]

\* "default ver=0 if missing"
currentVer(s, k) == IF k \in DOMAIN s THEN s[k].ver ELSE 0

currentValue(s, k) == IF k \in DOMAIN s THEN s[k].value ELSE ""

read(s, k) == [value |-> currentValue(s, k), ver |-> currentVer(s, k)]

\* A check that rejects only a baseVer ahead of the current version.
staleWrite_onlyAhead(s, m) == m.baseVer > currentVer(s, m.key)

\* A check against one version kept for the whole store instead of per key.
staleWrite_storeWide(s, m) ==
    m.baseVer # currentVer(s, m.key) + Cardinality(DOMAIN s \ {m.key})

\* "If baseVer != currentVer(key): reject (stale write)"
staleWrite(s, m) == m.baseVer # currentVer(s, m.key)

\* A store update that takes the version from the message, not the store.
setValue_fromBase(s, m) ==
    [k \in DOMAIN s \cup {m.key} |->
        IF k = m.key THEN [value |-> m.value, ver |-> m.baseVer] ELSE s[k]]

\* "Else: set value, increment ver"
setValue(s, m) ==
    [k \in DOMAIN s \cup {m.key} |->
        IF k = m.key
        THEN [value |-> m.value, ver |-> currentVer(s, k) + 1]
        ELSE s[k]]

\* A rejection that echoes the message instead of the current entry.
rejection_echo(s, m) == [key |-> m.key, value |-> m.value, ver |-> m.baseVer]

\* "Return { currentValue, currentVer } so client can refresh"
rejection(s, m) ==
    [key |-> m.key, value |-> currentValue(s, m.key), ver |-> currentVer(s, m.key)]

\* ------------------------------------------------------- the list of edits

\* An edit that records the version the message was based on.
editRecord_baseVer(m) == [key |-> m.key, value |-> m.value, ver |-> m.baseVer]

\* The edit appended for an accepted update message.
editRecord(m) == [key |-> m.key, value |-> m.value, ver |-> m.baseVer + 1]

\* A replay that keeps the entry a key already has.
replayEdit_keepFirst(s, e) ==
    [k \in DOMAIN s \cup {e.key} |->
        IF k \in DOMAIN s THEN s[k] ELSE [value |-> e.value, ver |-> e.ver]]

\* Replaying one edit: its {key, value, ver} is put in place as it is.
replayEdit(s, e) ==
    [k \in DOMAIN s \cup {e.key} |->
        IF k = e.key THEN [value |-> e.value, ver |-> e.ver] ELSE s[k]]

RECURSIVE replayFrom(_, _)
replayFrom(s, edits) ==
    IF edits = << >> THEN s
    ELSE replayFrom(replayEdit(s, Head(edits)), Tail(edits))

\* "recreate the in-memory state of the round by replaying all of the edits"
replay(edits) == replayFrom(EmptyStore, edits)

\* ------------------------------------------------------------- messages

Msg(t, c, type, e) ==
    [team |-> t, to |-> c, type |-> type, key |-> e.key, value |-> e.value,
     ver |-> e.ver]

\* The level of the map a hex lies on: a level holds many hexes.  Two hexes
\* of this universe lie on one level and the third on another.
levelOf(k) == IF k \in {"hexA", "hexB"} THEN "level1" ELSE "level2"

\* The contents of a level: the entry of every hex of it that the store holds.
contents(s, l) ==
    {[key |-> k, value |-> s[k].value, ver |-> s[k].ver] :
        k \in {h \in DOMAIN s : levelOf(h) = l}}

\* One Durable Object for all teams: the contents flow out to every websocket.
applied_allTeams(t, s, k, conns) ==
    UNION {{Msg(u, c, "applied", e) :
                c \in sessions[u], e \in contents(s, levelOf(k))} : u \in teams}

\* "flow the contents of the level being modified out to all clients"
applied(t, s, k, conns) ==
    {Msg(t, c, "applied", e) : c \in conns, e \in contents(s, levelOf(k))}

\* A current state sent as the whole list of edits, superseded ones included.
snapshot_history(t, s, c) ==
    {Msg(t, c, "snapshot", log[t][i]) : i \in 1..Len(log[t])}

\* "flow back the current state of the round"
snapshot(t, s, c) ==
    {Msg(t, c, "snapshot", [key |-> k, value |-> s[k].value, ver |-> s[k].ver]) :
        k \in DOMAIN s}

\* A reply that goes out on every websocket of the team.
reply_toAll(t, c, type, e) == {Msg(t, d, type, e) : d \in sessions[t]}

\* A reply reaches its client only over an open websocket.
reply(t, c, type, e) == IF c \in sessions[t] THEN {Msg(t, c, type, e)} ELSE {}

\* ---------------------------------------------------------------- state

Idle == [status |-> "idle", key |-> "", value |-> "", baseVer |-> 0]

NoCur == [client |-> "", stage |-> "none"]

NoSusp == [store |-> EmptyStore]

InFlight == {"pending", "processing"}

\* The version of a key as the Durable Object holds it: in memory while the
\* object is live, in its list of edits while it is not.
authVer(t, k) ==
    IF lifecycle[t] = "WARM" THEN currentVer(store[t], k)
    ELSE currentVer(replay(log[t]), k)

upToDate(t, r) == r.status \in InFlight /\ r.baseVer = authVer(t, r.key)

InitFor(ts) ==
    /\ teams = ts
    /\ lifecycle = [t \in AllTeams |-> "COLD"]
    /\ store = [t \in AllTeams |-> EmptyStore]
    /\ log = [t \in AllTeams |-> << >>]
    /\ sessions = [t \in AllTeams |-> {}]
    /\ req = [t \in AllTeams |-> [c \in Clients |-> Idle]]
    /\ cur = [t \in AllTeams |-> NoCur]
    /\ hydr = [t \in AllTeams |-> 0]
    /\ out = {}
    /\ conc = [t \in AllTeams |-> {}]
    /\ retry = [t \in AllTeams |-> {}]
    /\ susp = [t \in AllTeams |-> NoSusp]

\* No client holds anything before its websocket opens.
NoClients ==
    /\ local = [t \in AllTeams |-> [c \in Clients |-> EmptyStore]]
    /\ got = [t \in AllTeams |-> [c \in Clients |-> {}]]
    /\ wire = [t \in AllTeams |-> [c \in Clients |-> << >>]]

\* A directory that does not exist.
NoDir == [exists |-> FALSE, files |-> [n \in {} |-> ""]]

\* A file that does not exist.
Absent == "absent"

\* The deploy script is not run.
DeployOff ==
    /\ dpc = "off"
    /\ pages = NoDir
    /\ dist = NoDir
    /\ gitFileBackup = Absent
    /\ pages0 = NoDir

\* The compaction script is not run.
CompactOff ==
    /\ cpc = "off"
    /\ opts = [dryRun |-> FALSE, backup |-> FALSE]
    /\ todo = << >>
    /\ disk = [p \in {} |-> Absent]
    /\ buf = "none"
    /\ written = {}

Init == InitFor({"t1"}) /\ NoClients /\ DeployOff /\ CompactOff

\* ------------------------------------------------------ lifecycle actions

\* An instance that serves at once when woken, with nothing replayed.
Wake_warm(t) ==
    /\ t \in teams
    /\ lifecycle[t] \in {"COLD", "SUSPENDED"}
    /\ lifecycle' = [lifecycle EXCEPT ![t] = "WARM"]
    /\ store' = [store EXCEPT ![t] = EmptyStore]
    /\ hydr' = [hydr EXCEPT ![t] = 0]
    /\ out' = {}
    /\ UNCHANGED <<teams, log, sessions, req, cur, conc, retry, susp>>

\* The first connection or message after eviction starts a fresh instance.
Wake(t) ==
    /\ t \in teams
    /\ lifecycle[t] \in {"COLD", "SUSPENDED"}
    /\ lifecycle' = [lifecycle EXCEPT ![t] = "HYDRATING"]
    /\ store' = [store EXCEPT ![t] = EmptyStore]
    /\ hydr' = [hydr EXCEPT ![t] = 0]
    /\ out' = {}
    /\ UNCHANGED <<teams, log, sessions, req, cur, conc, retry, susp>>

\* Rehydration replays the next edit of the list.
HydrateStep(t) ==
    /\ t \in teams
    /\ lifecycle[t] = "HYDRATING"
    /\ hydr[t] < Len(log[t])
    /\ store' = [store EXCEPT ![t] = replayEdit(@, log[t][hydr[t] + 1])]
    /\ hydr' = [hydr EXCEPT ![t] = @ + 1]
    /\ out' = {}
    /\ UNCHANGED <<teams, lifecycle, log, sessions, req, cur, conc, retry, susp>>

\* An instance that serves again before all of the edits are replayed.
HydrateDone_early(t) ==
    /\ t \in teams
    /\ lifecycle[t] = "HYDRATING"
    /\ lifecycle' = [lifecycle EXCEPT ![t] = "WARM"]
    /\ hydr' = [hydr EXCEPT ![t] = 0]
    /\ susp' = [susp EXCEPT ![t] = NoSusp]
    /\ out' = {}
    /\ UNCHANGED <<teams, store, log, sessions, req, cur, conc, retry>>

\* All of the edits are replayed: the instance serves again.
HydrateDone(t) ==
    /\ t \in teams
    /\ lifecycle[t] = "HYDRATING"
    /\ hydr[t] = Len(log[t])
    /\ lifecycle' = [lifecycle EXCEPT ![t] = "WARM"]
    /\ hydr' = [hydr EXCEPT ![t] = 0]
    /\ susp' = [susp EXCEPT ![t] = NoSusp]
    /\ out' = {}
    /\ UNCHANGED <<teams, store, log, sessions, req, cur, conc, retry>>

\* The function is garbage collected when it is no longer needed, that is
\* when it is handling no message: what is in memory is gone, the list of
\* edits and the websockets stay.
Suspend(t) ==
    /\ t \in teams
    /\ lifecycle[t] = "WARM"
    /\ cur[t] = NoCur
    /\ lifecycle' = [lifecycle EXCEPT ![t] = "SUSPENDED"]
    /\ susp' = [susp EXCEPT ![t] = [store |-> store[t]]]
    /\ store' = [store EXCEPT ![t] = EmptyStore]
    /\ out' = {}
    /\ UNCHANGED <<teams, log, sessions, req, cur, hydr, conc, retry>>

\* ------------------------------------------------------- session actions

\* A client opens the round page: websocket, then the current state.
Connect(t, c) ==
    /\ t \in teams
    /\ lifecycle[t] = "WARM"
    /\ c \notin sessions[t]
    /\ sessions' = [sessions EXCEPT ![t] = @ \cup {c}]
    /\ out' = snapshot(t, store[t], c)
    /\ UNCHANGED <<teams, lifecycle, store, log, req, cur, hydr, conc, retry, susp>>

\* A closed websocket that takes the handling of its client's message with it.
Disconnect_cancels(t, c) ==
    /\ t \in teams
    /\ c \in sessions[t]
    /\ sessions' = [sessions EXCEPT ![t] = @ \ {c}]
    /\ cur' = IF cur[t].client = c THEN [cur EXCEPT ![t] = NoCur] ELSE cur
    /\ req' = IF cur[t].client = c THEN [req EXCEPT ![t][c] = Idle] ELSE req
    /\ out' = {}
    /\ UNCHANGED <<teams, lifecycle, store, log, hydr, conc, retry, susp>>

Disconnect(t, c) ==
    /\ t \in teams
    /\ c \in sessions[t]
    /\ sessions' = [sessions EXCEPT ![t] = @ \ {c}]
    /\ out' = {}
    /\ UNCHANGED <<teams, lifecycle, store, log, req, cur, hydr, conc, retry, susp>>

\* A client sends { key, value, baseVer }.
Send(t, c, k, v, b) ==
    /\ t \in teams
    /\ c \in sessions[t]
    /\ req[t][c].status \notin InFlight
    /\ Len(log[t]) < MaxLog
    /\ LET m == [status |-> "pending", key |-> k, value |-> v, baseVer |-> b]
           same == /\ req[t][c].status = "failed"
                   /\ req[t][c].key = k
                   /\ req[t][c].value = v
                   /\ req[t][c].baseVer = b
           rivals == {d \in Clients \ {c} : upToDate(t, req[t][d])}
       IN  /\ req' = [req EXCEPT ![t][c] = m]
           /\ retry' = [retry EXCEPT ![t] = IF same THEN @ \cup {c} ELSE @ \ {c}]
           /\ conc' = [conc EXCEPT ![t] =
                         {p \in @ : c \notin p} \cup
                         (IF b = authVer(t, k)
                          THEN {{c, d} : d \in rivals} ELSE {})]
    /\ out' = {}
    /\ UNCHANGED <<teams, lifecycle, store, log, sessions, cur, hydr, susp>>

\* ------------------------------------------------------ handling a message

\* The version check: is the message based on the current version of its key?
Check(t, c) ==
    /\ t \in teams
    /\ lifecycle[t] = "WARM"
    /\ cur[t] = NoCur
    /\ req[t][c].status = "pending"
    /\ IF staleWrite(store[t], req[t][c])
       THEN /\ req' = [req EXCEPT ![t][c].status = "rejected"]
            /\ out' = reply(t, c, "rejected", rejection(store[t], req[t][c]))
            /\ cur' = cur
       ELSE /\ req' = [req EXCEPT ![t][c].status = "processing"]
            /\ out' = {}
            /\ cur' = [cur EXCEPT ![t] = [client |-> c, stage |-> "checked"]]
    /\ UNCHANGED <<teams, lifecycle, store, log, sessions, hydr, conc, retry, susp>>

\* An append that is taken as done without the edit being in the list.
LogAppend_notDurable(t) ==
    /\ t \in teams
    /\ cur[t].stage = "checked"
    /\ store' = [store EXCEPT ![t] = setValue(@, req[t][cur[t].client])]
    /\ cur' = [cur EXCEPT ![t].stage = "stored"]
    /\ out' = {}
    /\ UNCHANGED <<teams, lifecycle, log, sessions, req, hydr, conc, retry, susp>>

\* A list of edits that keeps only the latest edit.
LogAppend_latestOnly(t) ==
    /\ t \in teams
    /\ cur[t].stage = "checked"
    /\ log' = [log EXCEPT ![t] = <<editRecord(req[t][cur[t].client])>>]
    /\ store' = [store EXCEPT ![t] = setValue(@, req[t][cur[t].client])]
    /\ cur' = [cur EXCEPT ![t].stage = "stored"]
    /\ out' = {}
    /\ UNCHANGED <<teams, lifecycle, sessions, req, hydr, conc, retry, susp>>

\* The edit is appended to the list of edits of the Durable Object and, at
\* the same time, the in-memory state of the round is updated; the flow out to
\* the clients comes next; one message is handled at a time.
LogAppend(t) ==
    /\ t \in teams
    /\ cur[t].stage = "checked"
    /\ log' = [log EXCEPT ![t] = Append(@, editRecord(req[t][cur[t].client]))]
    /\ store' = [store EXCEPT ![t] = setValue(@, req[t][cur[t].client])]
    /\ cur' = [cur EXCEPT ![t].stage = "stored"]
    /\ out' = {}
    /\ UNCHANGED <<teams, lifecycle, sessions, req, hydr, conc, retry, susp>>

\* A failed append after which the write is put in place all the same.
LogAppendFail_applied(t) ==
    /\ t \in teams
    /\ cur[t].stage = "checked"
    /\ LET c == cur[t].client
       IN  /\ req' = [req EXCEPT ![t][c].status = "failed"]
           /\ store' = [store EXCEPT ![t] = setValue(@, req[t][c])]
           /\ out' = reply(t, c, "failed", [key |-> req[t][c].key,
                                            value |-> req[t][c].value,
                                            ver |-> req[t][c].baseVer])
    /\ cur' = [cur EXCEPT ![t] = NoCur]
    /\ UNCHANGED <<teams, lifecycle, log, sessions, hydr, conc, retry, susp>>

\* The append fails or times out: the message is not applied.
LogAppendFail(t) ==
    /\ t \in teams
    /\ cur[t].stage = "checked"
    /\ LET c == cur[t].client
       IN  /\ req' = [req EXCEPT ![t][c].status = "failed"]
           /\ out' = reply(t, c, "failed", [key |-> req[t][c].key,
                                            value |-> req[t][c].value,
                                            ver |-> req[t][c].baseVer])
    /\ cur' = [cur EXCEPT ![t] = NoCur]
    /\ UNCHANGED <<teams, lifecycle, store, log, sessions, hydr, conc, retry, susp>>

\* A flow out after which the handling never ends.
Broadcast_holds(t) ==
    /\ t \in teams
    /\ cur[t].stage = "stored"
    /\ out' = applied(t, store[t], req[t][cur[t].client].key, sessions[t])
    /\ UNCHANGED <<teams, lifecycle, store, log, sessions, req, cur, hydr, conc,
                   retry, susp>>

\* The new contents flow out to all clients of the team.
Broadcast(t) ==
    /\ t \in teams
    /\ cur[t].stage = "stored"
    /\ out' = applied(t, store[t], req[t][cur[t].client].key, sessions[t])
    /\ req' = [req EXCEPT ![t][cur[t].client].status = "applied"]
    /\ cur' = [cur EXCEPT ![t] = NoCur]
    /\ UNCHANGED <<teams, lifecycle, store, log, sessions, hydr, conc, retry, susp>>

\* ------------------------------------------------------------ the system

\* The scripts of the repository and the clients' displays stand still while
\* the engine alone is observed.
EngineOnly == UNCHANGED <<clientVars, deployVars, compactVars>>

Next ==
    \/ \E t \in AllTeams : Wake(t) /\ EngineOnly
    \/ \E t \in AllTeams : HydrateStep(t) /\ EngineOnly
    \/ \E t \in AllTeams : HydrateDone(t) /\ EngineOnly
    \/ \E t \in AllTeams : Suspend(t) /\ EngineOnly
    \/ \E t \in AllTeams, c \in Clients : Connect(t, c) /\ EngineOnly
    \/ \E t \in AllTeams, c \in Clients : Disconnect(t, c) /\ EngineOnly
    \/ \E t \in AllTeams, c \in Clients, k \in Keys, v \in Values, b \in 0..MaxLog :
          Send(t, c, k, v, b) /\ EngineOnly
    \/ \E t \in AllTeams, c \in Clients : Check(t, c) /\ EngineOnly
    \/ \E t \in AllTeams : LogAppend(t) /\ EngineOnly
    \/ \E t \in AllTeams : LogAppendFail(t) /\ EngineOnly
    \/ \E t \in AllTeams : Broadcast(t) /\ EngineOnly

Spec == Init /\ [][Next]_vars

\* The scheme as the source describes it: an edit that passed the check is
\* appended to the list; the append does not fail.
NextSource ==
    \/ \E t \in AllTeams : Wake(t) /\ EngineOnly
    \/ \E t \in AllTeams : HydrateStep(t) /\ EngineOnly
    \/ \E t \in AllTeams : HydrateDone(t) /\ EngineOnly
    \/ \E t \in AllTeams : Suspend(t) /\ EngineOnly
    \/ \E t \in AllTeams, c \in Clients : Connect(t, c) /\ EngineOnly
    \/ \E t \in AllTeams, c \in Clients : Disconnect(t, c) /\ EngineOnly
    \/ \E t \in AllTeams, c \in Clients, k \in Keys, v \in Values, b \in 0..MaxLog :
          Send(t, c, k, v, b) /\ EngineOnly
    \/ \E t \in AllTeams, c \in Clients : Check(t, c) /\ EngineOnly
    \/ \E t \in AllTeams : LogAppend(t) /\ EngineOnly
    \/ \E t \in AllTeams : Broadcast(t) /\ EngineOnly

SpecSource == Init /\ [][NextSource]_vars

\* ------------------------------------------------------- two teams at once

\* Two teams play the round side by side, each with one client on one hex.
OneClient == {"c1"}

OneKey == {"hexA"}

InitTeams == InitFor(AllTeams) /\ NoClients /\ DeployOff /\ CompactOff

NextTeams ==
    \/ \E t \in AllTeams : Wake(t) /\ EngineOnly
    \/ \E t \in AllTeams : HydrateStep(t) /\ EngineOnly
    \/ \E t \in AllTeams : HydrateDone(t) /\ EngineOnly
    \/ \E t \in AllTeams : Suspend(t) /\ EngineOnly
    \/ \E t \in AllTeams, c \in OneClient : Connect(t, c) /\ EngineOnly
    \/ \E t \in AllTeams, c \in OneClient : Disconnect(t, c) /\ EngineOnly
    \/ \E t \in AllTeams, c \in OneClient, k \in OneKey, v \in Values, b \in 0..MaxLog :
          Send(t, c, k, v, b) /\ EngineOnly
    \/ \E t \in AllTeams, c \in OneClient : Check(t, c) /\ EngineOnly
    \/ \E t \in AllTeams : LogAppend(t) /\ EngineOnly
    \/ \E t \in AllTeams : LogAppendFail(t) /\ EngineOnly
    \/ \E t \in AllTeams : Broadcast(t) /\ EngineOnly

SpecTeams == InitTeams /\ [][NextTeams]_vars

\* ------------------------------------------------------------ the clients

\* "clients ... would simply replace their local state with the new state"
applyMsg(l, m) ==
    [k \in DOMAIN l \cup {m.key} |->
        IF k = m.key THEN [value |-> m.value, ver |-> m.ver] ELSE l[k]]

\* The state messages among msgs that go to client c of team t.
inbox(t, c, msgs) ==
    {x \in msgs : x.team = t /\ x.to = c /\ x.type \in {"applied", "snapshot"}}

\* The client replaces its local state with the state one message carries,
\* hex by hex.
RECURSIVE applyAll(_, _)
applyAll(l, msgs) ==
    IF msgs = {} THEN l
    ELSE LET m == CHOOSE x \in msgs : TRUE
         IN  applyAll(applyMsg(l, m), msgs \ {m})

\* What the latest step sent is under way to the clients on their websockets,
\* behind what was sent to them before; the clients' pages are other programs
\* and have not seen it yet.
Flow ==
    /\ wire' = [t \in AllTeams |-> [c \in Clients |->
                   IF inbox(t, c, out') = {} THEN wire[t][c]
                   ELSE Append(wire[t][c], inbox(t, c, out'))]]
    /\ UNCHANGED <<local, got, deployVars, compactVars>>

\* The first message under way reaches the page of client c, which replaces
\* its local state with the new state.
Receive(t, c) ==
    /\ t \in teams
    /\ wire[t][c] # << >>
    /\ local' = [local EXCEPT ![t][c] = applyAll(@, Head(wire[t][c]))]
    /\ got' = [got EXCEPT ![t][c] = @ \cup {Head(wire[t][c])}]
    /\ wire' = [wire EXCEPT ![t][c] = Tail(@)]
    /\ out' = {}
    /\ UNCHANGED <<teams, lifecycle, store, log, sessions, req, cur, hydr, conc,
                   retry, susp, deployVars, compactVars>>

\* The tab is closed: the websocket closes, and the page's state is gone with
\* what was under way to it.
CloseTab(t, c) ==
    /\ Disconnect(t, c)
    /\ local' = [local EXCEPT ![t][c] = EmptyStore]
    /\ got' = [got EXCEPT ![t][c] = {}]
    /\ wire' = [wire EXCEPT ![t][c] = << >>]
    /\ UNCHANGED <<deployVars, compactVars>>

\* A message the client has applied is sent to it once more.
Redeliver(t, c, m) ==
    /\ t \in teams
    /\ c \in sessions[t]
    /\ m \in got[t][c]
    /\ Len(wire[t][c]) < MaxWire
    /\ out' = m
    /\ wire' = [wire EXCEPT ![t][c] = Append(@, m)]
    /\ UNCHANGED <<teams, lifecycle, store, log, sessions, req, cur, hydr, conc,
                   retry, susp, local, got, deployVars, compactVars>>

\* The messages that can be sent once more: every entry a list of edits can
\* hold, as an applied message or as the current state.
Sent ==
    {{x} : x \in [team : AllTeams, to : Clients, type : {"applied", "snapshot"},
                  key : OneKey, value : Values, ver : 1..(MaxLog + 1)]}

NextClient ==
    \/ \E t \in AllTeams : Wake(t) /\ Flow
    \/ \E t \in AllTeams : HydrateStep(t) /\ Flow
    \/ \E t \in AllTeams : HydrateDone(t) /\ Flow
    \/ \E t \in AllTeams : Suspend(t) /\ Flow
    \/ \E t \in AllTeams, c \in Clients : Connect(t, c) /\ Flow
    \/ \E t \in AllTeams, c \in Clients : CloseTab(t, c)
    \/ \E t \in AllTeams, c \in Clients, k \in OneKey, v \in Values, b \in 0..MaxLog :
          Send(t, c, k, v, b) /\ Flow
    \/ \E t \in AllTeams, c \in Clients : Check(t, c) /\ Flow
    \/ \E t \in AllTeams : LogAppend(t) /\ Flow
    \/ \E t \in AllTeams : LogAppendFail(t) /\ Flow
    \/ \E t \in AllTeams : Broadcast(t) /\ Flow
    \/ \E t \in AllTeams, c \in Clients : Receive(t, c)
    \/ \E t \in AllTeams, c \in Clients, m \in Sent : Redeliver(t, c, m)

SpecClient == Init /\ [][NextClient]_vars

\* --------------------------------------------------------- fair scheduling

\* The single execution context of a team's Durable Object on one hex: what
\* it has to do, it does.
NextFair ==
    \/ \E t \in AllTeams : Wake(t) /\ EngineOnly
    \/ \E t \in AllTeams : HydrateStep(t) /\ EngineOnly
    \/ \E t \in AllTeams : HydrateDone(t) /\ EngineOnly
    \/ \E t \in AllTeams : Suspend(t) /\ EngineOnly
    \/ \E t \in AllTeams, c \in Clients : Connect(t, c) /\ EngineOnly
    \/ \E t \in AllTeams, c \in Clients : Disconnect(t, c) /\ EngineOnly
    \/ \E t \in AllTeams, c \in Clients, k \in OneKey, v \in Values, b \in 0..MaxLog :
          Send(t, c, k, v, b) /\ EngineOnly
    \/ \E t \in AllTeams, c \in Clients : Check(t, c) /\ EngineOnly
    \/ \E t \in AllTeams : LogAppend(t) /\ EngineOnly
    \/ \E t \in AllTeams : LogAppendFail(t) /\ EngineOnly
    \/ \E t \in AllTeams : Broadcast(t) /\ EngineOnly

\* A message that waits at an evicted Durable Object brings it back online.
Waiting(t) == \E c \in Clients : req[t][c].status = "pending"

\* What the runtime of a Durable Object guarantees: a message that waits wakes
\* the object; the replay of the edits goes on to its end; every message that
\* waits is handled at some time the object is live and free, however many
\* other messages are handled meanwhile; the append to the list ends, done or
\* failed; the handling goes on to its end.  Clients, and the garbage
\* collection, owe nothing.
Fairness ==
    \A t \in AllTeams :
        /\ WF_vars(Waiting(t) /\ Wake(t) /\ EngineOnly)
        /\ WF_vars(HydrateStep(t) /\ EngineOnly)
        /\ WF_vars(HydrateDone(t) /\ EngineOnly)
        /\ \A c \in Clients : SF_vars(Check(t, c) /\ EngineOnly)
        /\ WF_vars((LogAppend(t) \/ LogAppendFail(t)) /\ EngineOnly)
        /\ WF_vars(Broadcast(t) /\ EngineOnly)

SpecFair == Init /\ [][NextFair]_vars /\ Fairness

\* The same execution context with the steps of the source alone: an append
\* to the list of edits is done.
NextFairSource ==
    \/ \E t \in AllTeams : Wake(t) /\ EngineOnly
    \/ \E t \in AllTeams : HydrateStep(t) /\ EngineOnly
    \/ \E t \in AllTeams : HydrateDone(t) /\ EngineOnly
    \/ \E t \in AllTeams : Suspend(t) /\ EngineOnly
    \/ \E t \in AllTeams, c \in Clients : Connect(t, c) /\ EngineOnly
    \/ \E t \in AllTeams, c \in Clients : Disconnect(t, c) /\ EngineOnly
    \/ \E t \in AllTeams, c \in Clients, k \in OneKey, v \in Values, b \in 0..MaxLog :
          Send(t, c, k, v, b) /\ EngineOnly
    \/ \E t \in AllTeams, c \in Clients : Check(t, c) /\ EngineOnly
    \/ \E t \in AllTeams : LogAppend(t) /\ EngineOnly
    \/ \E t \in AllTeams : Broadcast(t) /\ EngineOnly

FairnessSource ==
    \A t \in AllTeams :
        /\ WF_vars(Waiting(t) /\ Wake(t) /\ EngineOnly)
        /\ WF_vars(HydrateStep(t) /\ EngineOnly)
        /\ WF_vars(HydrateDone(t) /\ EngineOnly)
        /\ \A c \in Clients : SF_vars(Check(t, c) /\ EngineOnly)
        /\ WF_vars(LogAppend(t) /\ EngineOnly)
        /\ WF_vars(Broadcast(t) /\ EngineOnly)

SpecFairSource == Init /\ [][NextFairSource]_vars /\ FairnessSource

\* ------------------------------------------------------- the deploy script

\* A directory entry that is itself a directory.
IsDir(x) == x = "dir"

\* Text, and with it a file name, is a list of pieces: a space, a newline, or
\* a run of other characters.
gitFile == <<".git">>

nojekyllFile == <<".nojekyll">>

\* The names an entry of pages/ or dist/ may have, in the order of their
\* bytes: a page with a space before its name, one with a space after it, and
\* names with a newline in them.
byteOrder ==
    << <<" ", "lead.html">>, gitFile, nojekyllFile, <<"a", "\n", ".">>,
       <<"a", "\n", "..">>, <<"a", "\n", "b.html">>, <<"index.html">>,
       <<"old.html">>, <<"zz", " ">> >>

\* "ls -A", its output not going to a terminal: every entry of the directory
\* but "." and "..", dot files included, in the order of their bytes, each
\* name as it is and a newline after it.
RECURSIVE lsFrom(_, _)
lsFrom(d, i) ==
    IF i > Len(byteOrder) THEN << >>
    ELSE (IF byteOrder[i] \in DOMAIN d.files
          THEN byteOrder[i] \o <<"\n">> ELSE << >>) \o lsFrom(d, i + 1)

ls(d) == lsFrom(d, 1)

\* White space as trim() takes it.
IsSpace(ch) == ch \in {" ", "\n"}

RECURSIVE trimStart(_)
trimStart(text) ==
    IF text # << >> /\ IsSpace(Head(text)) THEN trimStart(Tail(text)) ELSE text

RECURSIVE trimEnd(_)
trimEnd(text) ==
    IF text # << >> /\ IsSpace(text[Len(text)])
    THEN trimEnd(SubSeq(text, 1, Len(text) - 1)) ELSE text

\* ".trim()"
trim(text) == trimEnd(trimStart(text))

\* ".split('\n')": the pieces between the newlines, empty ones included.
RECURSIVE split(_)
split(text) ==
    IF \A i \in 1..Len(text) : text[i] # "\n" THEN <<text>>
    ELSE LET i == CHOOSE j \in 1..Len(text) :
                      text[j] = "\n" /\ \A h \in 1..(j - 1) : text[h] # "\n"
         IN  <<SubSeq(text, 1, i - 1)>> \o split(SubSeq(text, i + 1, Len(text)))

\* "const filesToKeep = ['.git']"
filesToKeep == {gitFile}

\* "execSync(`ls -A ...`).trim().split('\n')
\*     .filter(f => f && !filesToKeep.includes(f))"
allFiles(d) ==
    SelectSeq(split(trim(ls(d))), LAMBDA f : f # << >> /\ f \notin filesToKeep)

\* A directory holding the given files.
Dir(f) == [exists |-> TRUE, files |-> f]

\* The directory without the entries named.
rmAll(d, names) == Dir([n \in DOMAIN d.files \ names |-> d.files[n]])

\* "rmSync(join(pagesDir, file), { recursive: true, force: true })": join
\* resolves "." to pages/ itself and ".." to the repository root, which holds
\* pages/, dist/ and the backup file; a path that names nothing is passed
\* over.
rmSync(fs, file) ==
    IF file = <<"..">>
    THEN [pages |-> NoDir, dist |-> NoDir, gitFileBackup |-> Absent]
    ELSE IF file = <<".">>
    THEN [fs EXCEPT !.pages = NoDir]
    ELSE [fs EXCEPT !.pages = IF @.exists THEN rmAll(@, {file}) ELSE @]

\* "for (const file of allFiles) { ... rmSync(filePath, ...) }"
RECURSIVE rmEach(_, _)
rmEach(fs, files) ==
    IF files = << >> THEN fs
    ELSE rmEach(rmSync(fs, Head(files)), Tail(files))

\* The directory with one file written.
writeFile(d, n, x) ==
    Dir([m \in DOMAIN d.files \cup {n} |-> IF m = n THEN x ELSE d.files[m]])

\* cpSync(src, dest, { recursive: true }) cannot put a directory over a file
\* or a file over a directory.
clash(src, dest) ==
    {n \in DOMAIN src.files \cap DOMAIN dest.files :
        IsDir(src.files[n]) # IsDir(dest.files[n])}

\* cpSync(src, dest, { recursive: true }): the entries of src over dest's.
cpInto(src, dest) ==
    Dir([n \in DOMAIN dest.files \cup DOMAIN src.files |->
            IF n \in DOMAIN src.files THEN src.files[n] ELSE dest.files[n]])

\* The pages whose names "ls" does not give back as they are.
OddNames ==
    { <<" ", "lead.html">>, <<"zz", " ">>, <<"a", "\n", "b.html">>,
      <<"a", "\n", ".">>, <<"a", "\n", "..">> }

\* The worktrees the script may find: none, one without its .git, one whose
\* .git is the worktree link file or a directory, with or without pages.
PagesBefore ==
    {NoDir} \cup
    {Dir(f) : f \in {g \in UNION {[names -> {"gitdir: pages", "dir", "old"}] :
                                      names \in SUBSET ({gitFile, <<"old.html">>}
                                                          \cup OddNames)} :
                        \A n \in DOMAIN g : g[n] = "old" <=> n # gitFile}}

\* What "pnpm build" may leave in dist/: the site, and maybe an entry .git.
BuildOutputs ==
    {Dir(f) : f \in {g \in UNION {[names -> {"gitdir: other", "dir", "new"}] :
                                      names \in {{<<"index.html">>},
                                                 {<<"index.html">>, gitFile}}} :
                        \A n \in DOMAIN g : g[n] = "new" <=> n = <<"index.html">>}}

InitDeploy ==
    /\ InitFor({"t1"}) /\ NoClients /\ CompactOff
    /\ dpc = "start"
    /\ pages \in PagesBefore
    /\ dist \in {NoDir, Dir([n \in {<<"index.html">>} |-> "stale"])}
    /\ gitFileBackup \in {Absent, "gitdir: stale"}
    /\ pages0 = pages

\* "if (!existsSync(pagesDir)) { ... process.exit(1) }"
CheckPages ==
    /\ dpc = "start"
    /\ dpc' = IF pages.exists THEN "checkGit" ELSE "exit1"
    /\ UNCHANGED <<pages, dist, gitFileBackup, pages0>>

\* "if (!existsSync(gitFile)) { ... process.exit(1) }"
CheckGit ==
    /\ dpc = "checkGit"
    /\ dpc' = IF gitFile \in DOMAIN pages.files THEN "build" ELSE "exit1"
    /\ UNCHANGED <<pages, dist, gitFileBackup, pages0>>

\* "exec('pnpm build')": the build ends well or not, and leaves dist/ as it
\* was or with what it wrote.
Build ==
    /\ dpc = "build"
    /\ dpc' \in {"checkDist", "buildFailed"}
    /\ dist' \in BuildOutputs \cup {dist}
    /\ UNCHANGED <<pages, gitFileBackup, pages0>>

\* exec: "catch (error) { ... process.exit(1) }"
BuildFailed ==
    /\ dpc = "buildFailed"
    /\ dpc' = "exit1"
    /\ UNCHANGED <<pages, dist, gitFileBackup, pages0>>

\* "if (!existsSync(distDir)) { ... process.exit(1) }"
CheckDist ==
    /\ dpc = "checkDist"
    /\ dpc' = IF dist.exists THEN "backup" ELSE "exit1"
    /\ UNCHANGED <<pages, dist, gitFileBackup, pages0>>

\* "cpSync(gitFile, gitFileBackup)": not recursive, so a directory throws.
SaveGit ==
    /\ dpc = "backup"
    /\ IF IsDir(pages.files[gitFile])
       THEN dpc' = "threw" /\ UNCHANGED gitFileBackup
       ELSE dpc' = "clean" /\ gitFileBackup' = pages.files[gitFile]
    /\ UNCHANGED <<pages, dist, pages0>>

\* "const allFiles = ...; for (const file of allFiles) { rmSync(...) }"
Clean ==
    /\ dpc = "clean"
    /\ LET fs == rmEach([pages |-> pages, dist |-> dist,
                         gitFileBackup |-> gitFileBackup], allFiles(pages))
       IN  /\ pages' = fs.pages
           /\ dist' = fs.dist
           /\ gitFileBackup' = fs.gitFileBackup
    /\ dpc' = "copy"
    /\ UNCHANGED pages0

\* "cpSync(distDir, pagesDir, { recursive: true })": it makes pages/ when
\* there is none; it throws when there is no dist/, and, some entries copied
\* and some not, when a directory of dist/ meets a file of pages/.
CopyDist ==
    /\ dpc = "copy"
    /\ IF ~ dist.exists
       THEN dpc' = "threw" /\ UNCHANGED pages
       ELSE IF clash(dist, pages) = {}
       THEN dpc' = "nojekyll" /\ pages' = cpInto(dist, pages)
       ELSE /\ dpc' = "threw"
            /\ \E some \in SUBSET (DOMAIN dist.files \ clash(dist, pages)) :
                  pages' = cpInto(Dir([n \in some |-> dist.files[n]]), pages)
    /\ UNCHANGED <<dist, gitFileBackup, pages0>>

\* "writeFileSync(nojekyllFile, '')"
NoJekyll ==
    /\ dpc = "nojekyll"
    /\ pages' = writeFile(pages, nojekyllFile, "")
    /\ dpc' = "restore"
    /\ UNCHANGED <<dist, gitFileBackup, pages0>>

\* "cpSync(gitFileBackup, gitFile)": not recursive, it throws when the copy
\* of dist/ left a directory .git in pages/.
RestoreGit ==
    /\ dpc = "restore"
    /\ IF gitFile \in DOMAIN pages.files /\ IsDir(pages.files[gitFile])
       THEN dpc' = "threw" /\ UNCHANGED pages
       ELSE dpc' = "rmBackup" /\ pages' = writeFile(pages, gitFile, gitFileBackup)
    /\ UNCHANGED <<dist, gitFileBackup, pages0>>

\* "rmSync(gitFileBackup)", and the script runs to its end.
RemoveBackup ==
    /\ dpc = "rmBackup"
    /\ gitFileBackup' = Absent
    /\ dpc' = "done"
    /\ UNCHANGED <<pages, dist, pages0>>

\* The engine, its clients and the compaction script stand still.
DeployOnly == UNCHANGED <<syncVars, clientVars, compactVars>>

NextDeploy ==
    \/ CheckPages /\ DeployOnly
    \/ CheckGit /\ DeployOnly
    \/ Build /\ DeployOnly
    \/ BuildFailed /\ DeployOnly
    \/ CheckDist /\ DeployOnly
    \/ SaveGit /\ DeployOnly
    \/ Clean /\ DeployOnly
    \/ CopyDist /\ DeployOnly
    \/ NoJekyll /\ DeployOnly
    \/ RestoreGit /\ DeployOnly
    \/ RemoveBackup /\ DeployOnly

SpecDeploy == InitDeploy /\ [][NextDeploy]_vars

\* --------------------------------------------------- the compaction script

\* Paths are lists of segments.  REPO_ROOT, also the target folder.
REPO_ROOT == <<"repo">>

\* Two images under the target folder and one elsewhere on the disk.
Inside == {<<"repo", "a.png">>, <<"repo", "img", "c.jpg">>}

Images == Inside \cup {<<"tmp", "b.png">>}

\* How many leading segments two paths share.
RECURSIVE common(_, _)
common(a, b) ==
    IF a = << >> \/ b = << >> \/ Head(a) # Head(b) THEN 0
    ELSE 1 + common(Tail(a), Tail(b))

\* ".." as many times as asked.
RECURSIVE ups(_)
ups(n) == IF n = 0 THEN << >> ELSE <<"..">> \o ups(n - 1)

\* path.relative(from, to)
relative(from, to) ==
    ups(Len(from) - common(from, to)) \o
    SubSeq(to, common(from, to) + 1, Len(to))

\* path.join(base, rel): ".." segments are resolved.
RECURSIVE join(_, _)
join(base, rel) ==
    IF rel = << >> THEN base
    ELSE IF Head(rel) = ".."
         THEN join(SubSeq(base, 1, Len(base) - 1), Tail(rel))
         ELSE join(Append(base, Head(rel)), Tail(rel))

\* "const COMPACTED_ASSETS_DIR = join(targetFolder, '.compacted-assets')"
outputDir == join(REPO_ROOT, <<".compacted-assets">>)

\* "const outputPath = join(outputDir, relativePath)"
outputPath(filePath) == join(outputDir, relative(REPO_ROOT, filePath))

\* The path lies under the directory.
under(dir, path) == Len(path) > Len(dir) /\ SubSeq(path, 1, Len(dir)) = dir

\* The lists of one or two different images among imgs.
Lists(imgs) ==
    {<<i>> : i \in imgs} \cup
    {l \in {<<i, j>> : i \in imgs, j \in imgs} : l[1] # l[2]}

\* The image being handled.
img == Head(todo)

InitCompact ==
    /\ InitFor({"t1"}) /\ NoClients /\ DeployOff
    /\ cpc = "loop"
    /\ opts \in [dryRun : BOOLEAN, backup : BOOLEAN]
    /\ todo \in Lists(Inside) \cup {l \in Lists(Images) : Len(l) = 2}
    /\ disk = [i \in Images |-> [file |-> "original", backup |-> Absent]]
    /\ buf = "none"
    /\ written = {}

\* "for (let i = 0; i < imagesToCompress.length; i++)", and after the loop
\* the summary.
Loop ==
    /\ cpc = "loop"
    /\ cpc' = IF todo = << >> THEN "done" ELSE "backup"
    /\ UNCHANGED <<opts, todo, disk, buf, written>>

\* "if (backup || dryRun) { await copyFile(filePath, backupPath) }"
MakeBackup ==
    /\ cpc = "backup"
    /\ disk' = IF opts.backup \/ opts.dryRun
               THEN [disk EXCEPT ![img].backup = disk[img].file]
               ELSE disk
    /\ cpc' = "compress"
    /\ UNCHANGED <<opts, todo, buf, written>>

\* sharp compresses the image into a buffer, smaller than the file or not.
Compress ==
    /\ cpc = "compress"
    /\ buf' \in {"smaller", "notSmaller"}
    /\ cpc' = "decide"
    /\ UNCHANGED <<opts, todo, disk, written>>

\* sharp cannot be loaded, or cannot read or compress the image: the error
\* leaves compressImage and is caught in main's loop, which goes on.
CompressError ==
    /\ cpc = "compress"
    /\ todo' = Tail(todo)
    /\ buf' = "none"
    /\ cpc' = "loop"
    /\ UNCHANGED <<opts, disk, written>>

\* "if (compressedSize < originalSize)": write the file (normal mode) or the
\* copy under the output directory (dry run); else nothing is written.
Decide ==
    /\ cpc = "decide"
    /\ IF buf = "smaller"
       THEN IF ~ opts.dryRun
            THEN /\ disk' = [disk EXCEPT ![img].file = "compressed"]
                 /\ written' = written \cup {img}
                 /\ cpc' = "return"
            ELSE /\ written' = written \cup {outputPath(img)}
                 /\ cpc' = "restore"
                 /\ UNCHANGED disk
       ELSE /\ cpc' = IF opts.backup \/ opts.dryRun THEN "restore" ELSE "return"
            /\ UNCHANGED <<disk, written>>
    /\ UNCHANGED <<opts, todo, buf>>

\* "await copyFile(backupPath, filePath)"
Restore ==
    /\ cpc = "restore"
    /\ disk' = [disk EXCEPT ![img].file = disk[img].backup]
    /\ cpc' = "unlink"
    /\ UNCHANGED <<opts, todo, buf, written>>

\* "await unlink(backupPath)"
Unlink ==
    /\ cpc = "unlink"
    /\ disk' = [disk EXCEPT ![img].backup = Absent]
    /\ cpc' = "return"
    /\ UNCHANGED <<opts, todo, buf, written>>

\* compressImage returns its result to main's loop.
Return ==
    /\ cpc = "return"
    /\ todo' = Tail(todo)
    /\ buf' = "none"
    /\ cpc' = "loop"
    /\ UNCHANGED <<opts, disk, written>>

\* The engine, its clients and the deploy script stand still.
CompactOnly == UNCHANGED <<syncVars, clientVars, deployVars>>

NextCompact ==
    \/ Loop /\ CompactOnly
    \/ MakeBackup /\ CompactOnly
    \/ Compress /\ CompactOnly
    \/ CompressError /\ CompactOnly
    \/ Decide /\ CompactOnly
    \/ Restore /\ CompactOnly
    \/ Unlink /\ CompactOnly
    \/ Return /\ CompactOnly

SpecCompact == InitCompact /\ [][NextCompact]_vars

\* ================================================================ claims

\* The update message of client c of team t, as the client sent it.
msgOf(t, c) == req[t][c]

Checked(t, c) == req[t][c].status = "pending" /\ req'[t][c].status # "pending"

Accepted(t, c) == req[t][c].status = "pending" /\ req'[t][c].status = "processing"

Rejected(t, c) == req[t][c].status = "pending" /\ req'[t][c].status = "rejected"

Acknowledged(t, c) == req[t][c].status = "processing" /\ req'[t][c].status = "applied"

AppendFailed(t, c) == req[t][c].status = "processing" /\ req'[t][c].status = "failed"

HasEdit(t, e) == \E i \in 1..Len(log[t]) : log[t][i] = e

\* C1: a checked message is accepted exactly when its baseVer is the current
\* version of its key (0 for a key never written); the edit then appended is
\* {key, value, baseVer + 1}, the store update made with the append puts
\* (value, baseVer + 1) in place, and when the write is acknowledged read(key)
\* returns just that.
C1_AcceptedWrite ==
    [][\A t \in AllTeams, c \in Clients :
        LET m == msgOf(t, c)
            now == currentVer(store[t], m.key)
            entry == [value |-> m.value, ver |-> m.baseVer + 1]
        IN  /\ Checked(t, c) => (Accepted(t, c) <=> m.baseVer = now)
            /\ (Checked(t, c) /\ m.key \notin DOMAIN store[t]) =>
                  (Accepted(t, c) <=> m.baseVer = 0)
            /\ (cur[t].client = c /\ log'[t] # log[t]) =>
                  /\ m.baseVer = now
                  /\ log'[t] = Append(log[t], [key |-> m.key, value |-> m.value,
                                               ver |-> m.baseVer + 1])
            /\ (cur[t].client = c /\ store'[t] # store[t] /\ lifecycle'[t] = "WARM") =>
                  /\ read(store[t], m.key).ver = m.baseVer
                  /\ read(store'[t], m.key) = entry
                  /\ log'[t] # log[t]
            /\ Acknowledged(t, c) => read(store'[t], m.key) = entry
            /\ (cur[t] = NoCur /\ lifecycle[t] = "WARM" /\ lifecycle'[t] = "WARM") =>
                  /\ log'[t] = log[t]
                  /\ store'[t] = store[t]
      ]_vars

\* C1 witness: a write on top of version 1 is acknowledged and read back.
C1_Witness ==
    \E t \in AllTeams, c \in Clients :
        /\ req[t][c].status = "applied"
        /\ req[t][c].baseVer = 1
        /\ read(store[t], req[t][c].key) =
              [value |-> req[t][c].value, ver |-> 2]
        /\ \E x \in out : x.type = "applied" /\ x.ver = 2

\* C2: a message whose baseVer differs from the current version of its key is
\* rejected; the rejection carries the current value and version of the key
\* as they are at the version check, and the store is left as it was.
C2_StaleRejected ==
    [][\A t \in AllTeams, c \in Clients :
        LET m == msgOf(t, c)
        IN  /\ (Checked(t, c) /\ m.baseVer # currentVer(store[t], m.key)) =>
                  Rejected(t, c)
            /\ Rejected(t, c) =>
                  /\ m.baseVer # currentVer(store[t], m.key)
                  /\ store' = store
                  /\ \A x \in out' :
                        /\ x.type = "rejected"
                        /\ x.key = m.key
                        /\ x.value = currentValue(store[t], m.key)
                        /\ x.ver = currentVer(store[t], m.key)
                  /\ c \in sessions[t] => out' # {}
      ]_vars

\* C2 witness: a stale message has just been rejected with the value and
\* version another client wrote.
C2_Witness ==
    \E t \in AllTeams, c \in Clients :
        /\ req[t][c].status = "rejected"
        /\ req[t][c].baseVer < currentVer(store[t], req[t][c].key)
        /\ \E x \in out :
              /\ x.type = "rejected"
              /\ x.to = c
              /\ x.ver = currentVer(store[t], x.key)
              /\ x.value = currentValue(store[t], x.key)
              /\ x.value # req[t][c].value

\* C3: a rejection appends no edit, sends no applied message, and what it
\* sends goes to the client that sent the message and to no other.
C3_RejectionIsPrivate ==
    [][\A t \in AllTeams, c \in Clients :
        Rejected(t, c) =>
            /\ log' = log
            /\ \A x \in out' : x.type # "applied" /\ x.to = c /\ x.team = t
      ]_vars

\* C3 witness: a rejection was sent while another client was connected.
C3_Witness ==
    \E t \in AllTeams, c \in Clients, d \in Clients :
        /\ c # d
        /\ d \in sessions[t]
        /\ req[t][c].status = "rejected"
        /\ Len(log[t]) > 0
        /\ \E x \in out : x.type = "rejected" /\ x.to = c

\* The store a read is answered from: the in-memory state while the instance
\* is live, the replay of the list of edits while it is not.
authStore(t) == IF lifecycle[t] = "WARM" THEN store[t] ELSE replay(log[t])

Done(t, c) == req[t][c].status \in {"applied", "rejected", "failed"}

\* Two up-to-date clients whose messages for one key overlapped.
SameKeyRace(t, c, d) ==
    /\ c # d
    /\ {c, d} \in conc[t]
    /\ req[t][c].key = req[t][d].key

\* Two up-to-date clients whose messages for different keys overlapped.
DistinctKeys(t, c, d) ==
    /\ c # d
    /\ {c, d} \in conc[t]
    /\ req[t][c].key # req[t][d].key

\* What C4 says of a winner c and a loser d.
OneWins(t, c, d) ==
    /\ req[t][c].status = "applied"
    /\ req[t][d].status = "rejected"
    /\ authVer(t, req[t][c].key) = req[t][c].baseVer + 1
    /\ \A x \in out :
          (x.type = "rejected" /\ x.to = d) =>
              /\ x.key = req[t][c].key
              /\ x.value = req[t][c].value
              /\ x.ver = req[t][c].baseVer + 1

\* C4: of the two messages of a same-key race, both based on the key's
\* current version, never more than one is accepted and the version never
\* rises by more than 1; once both are handled exactly one is accepted, the
\* version is one higher, and the other is rejected with the winner's value
\* and the winner's new version.
C4_SameKeyRace ==
    \A t \in AllTeams, c \in Clients, d \in Clients :
        SameKeyRace(t, c, d) =>
            /\ req[t][c].baseVer = req[t][d].baseVer
            /\ ~(req[t][c].status = "applied" /\ req[t][d].status = "applied")
            /\ authVer(t, req[t][c].key) <= req[t][c].baseVer + 1
            /\ (Done(t, c) /\ Done(t, d)) =>
                  (OneWins(t, c, d) \/ OneWins(t, d, c))

\* C4 witness: hexA absent, red and blue both at baseVer 0; red is applied,
\* blue has just been rejected with (red, 1).
C4_Witness ==
    \E t \in AllTeams, c \in Clients, d \in Clients :
        /\ SameKeyRace(t, c, d)
        /\ req[t][c] = [status |-> "applied", key |-> "hexA", value |-> "red",
                        baseVer |-> 0]
        /\ req[t][d] = [status |-> "rejected", key |-> "hexA", value |-> "blue",
                        baseVer |-> 0]
        /\ out = {Msg(t, d, "rejected", [key |-> "hexA", value |-> "red", ver |-> 1])}

BothApplied(t, c, d) ==
    /\ req[t][c].status = "applied"
    /\ req[t][d].status = "applied"
    /\ \A x \in {c, d} :
          read(authStore(t), req[t][x].key) =
              [value |-> req[t][x].value, ver |-> req[t][x].baseVer + 1]

\* C5: overlapping messages of up-to-date clients for different keys are
\* never rejected; each one that is accepted leaves its key at its value
\* and at a version one higher; once both are handled both are accepted.
C5_DistinctKeys ==
    \A t \in AllTeams, c \in Clients, d \in Clients :
        DistinctKeys(t, c, d) =>
            /\ req[t][c].status # "rejected"
            /\ req[t][d].status # "rejected"
            /\ \A x \in {c, d} :
                  req[t][x].status = "applied" =>
                      read(authStore(t), req[t][x].key) =
                          [value |-> req[t][x].value, ver |-> req[t][x].baseVer + 1]
            /\ (Done(t, c) /\ Done(t, d)) => BothApplied(t, c, d)

\* C5 witness: two overlapping writes, red to hexA and blue to hexB, are
\* both applied and both in the store.
C5_Witness ==
    \E t \in AllTeams, c \in Clients, d \in Clients :
        /\ DistinctKeys(t, c, d)
        /\ BothApplied(t, c, d)
        /\ req[t][c].key = "hexA" /\ req[t][c].value = "red"
        /\ req[t][d].key = "hexB" /\ req[t][d].value = "blue"
        /\ Len(log[t]) = 2
        /\ DOMAIN authStore(t) = {"hexA", "hexB"}

\* C6: in every step the version of every key stays or rises by exactly 1;
\* it rises only in the step that appends the edit of a write to that key
\* that passed the version check and puts it in place, and never because of
\* a rejection, a failed append, a connect, a disconnect, a garbage
\* collection or a rehydration step.  The version of a key is the one a read
\* is answered from (authVer).
C6_VersionMonotonic ==
    [][\A t \in AllTeams, k \in Keys :
        /\ authVer(t, k)' >= authVer(t, k)
        /\ authVer(t, k)' <= authVer(t, k) + 1
        /\ authVer(t, k)' # authVer(t, k) =>
              /\ cur[t].stage = "checked" /\ cur'[t].stage = "stored"
              /\ msgOf(t, cur[t].client).key = k
              /\ msgOf(t, cur[t].client).baseVer = authVer(t, k)
              /\ log'[t] = Append(log[t], [key |-> k,
                                           value |-> msgOf(t, cur[t].client).value,
                                           ver |-> authVer(t, k) + 1])
        /\ (lifecycle[t] = "WARM" /\ lifecycle'[t] = "WARM") =>
              /\ currentVer(store'[t], k) \in
                    {currentVer(store[t], k), currentVer(store[t], k) + 1}
              /\ currentVer(store'[t], k) # currentVer(store[t], k) =>
                    cur[t].stage = "checked"
      ]_vars

\* C6 witness: the second write to a key has just been put in place, its
\* version risen from 1 to 2.
C6_Witness ==
    \E t \in AllTeams, k \in Keys :
        /\ lifecycle[t] = "WARM"
        /\ cur[t].stage = "stored"
        /\ msgOf(t, cur[t].client).key = k
        /\ currentVer(store[t], k) = 2
        /\ authVer(t, k) = 2

\* C7: whenever the instance is live the store is the replay of the list of
\* edits; in particular the store right after the latest edit was accepted is
\* the replay of the list that ends with that edit, and during rehydration
\* the store is the replay of the prefix replayed so far.
C7_StoreIsReplay ==
    \A t \in AllTeams :
        /\ lifecycle[t] = "WARM" => store[t] = replay(log[t])
        /\ lifecycle[t] = "HYDRATING" =>
              store[t] = replay(SubSeq(log[t], 1, hydr[t]))

\* C7 witness: the store right after the second edit of a key was put in
\* place, with another key in the list too.
C7_Witness ==
    \E t \in AllTeams :
        /\ lifecycle[t] = "WARM"
        /\ cur[t].stage = "stored"
        /\ Len(log[t]) >= 2
        /\ log[t][Len(log[t])].ver = 2
        /\ store[t] = replay(log[t])

\* The rehydration has replayed the whole list of edits.
Rehydrated(t) == lifecycle[t] = "HYDRATING" /\ hydr[t] = Len(log[t])

C9_WriteAhead ==
    \A t \in AllTeams :
        /\ \A x \in out :
              (x.team = t /\ x.type = "applied") =>
                  HasEdit(t, [key |-> x.key, value |-> x.value, ver |-> x.ver])
        /\ \A c \in Clients :
              req[t][c].status = "applied" =>
                  HasEdit(t, [key |-> req[t][c].key, value |-> req[t][c].value,
                              ver |-> req[t][c].baseVer + 1])
        /\ cur[t].stage = "stored" =>
              /\ Len(log[t]) > 0
              /\ log[t][Len(log[t])].key = msgOf(t, cur[t].client).key
              /\ log[t][Len(log[t])].value = msgOf(t, cur[t].client).value

\* C9 witness: an applied message has just gone out to two clients.
C9_Witness ==
    \E t \in AllTeams :
        /\ Cardinality({x \in out : x.type = "applied" /\ x.team = t}) = 2
        /\ \A x \in out : HasEdit(t, [key |-> x.key, value |-> x.value, ver |-> x.ver])

\* What a failed append leaves behind, for the message m of client c.
FailureLeaves(t, c) ==
    LET m == msgOf(t, c)
    IN  /\ store' = store
        /\ log' = log
        /\ ~HasEdit(t, [key |-> m.key, value |-> m.value, ver |-> m.baseVer + 1])'
        /\ read(store'[t], m.key).ver = m.baseVer
        /\ lifecycle'[t] = "WARM"
        /\ cur'[t] = NoCur
        /\ \A x \in out' :
              /\ x.type = "failed"
              /\ x.to = c
              /\ x.team = t
              /\ x.key = m.key
        /\ c \in sessions[t] => out' # {}
        /\ ~staleWrite(store'[t], m)

\* C10 as claimed: a failed append leaves the store and the list of edits as
\* they were, broadcasts nothing, tells the sender of a failure and leaves
\* the instance live; and a later retry of the same message is accepted
\* (passes the version check).
C10_Original ==
    [][\A t \in AllTeams, c \in Clients :
        /\ AppendFailed(t, c) => FailureLeaves(t, c)
        /\ (c \in retry[t] /\ Checked(t, c)) => Accepted(t, c)
      ]_vars

\* C10 as amended: the same, except that a later retry of the same message
\* passes the version check exactly when no other write to its key was accepted in
\* between (right after the failure it does), and is then applied unless its
\* own append fails.
C10_AppendFailure ==
    [][\A t \in AllTeams, c \in Clients :
        /\ AppendFailed(t, c) => FailureLeaves(t, c)
        /\ (c \in retry[t] /\ Checked(t, c)) =>
              (Accepted(t, c) <=>
                  read(store[t], msgOf(t, c).key).ver = msgOf(t, c).baseVer)
        /\ (c \in retry[t] /\ Rejected(t, c)) =>
              \E i \in 1..Len(log[t]) :
                  /\ log[t][i].key = msgOf(t, c).key
                  /\ log[t][i].ver = msgOf(t, c).baseVer + 1
        /\ (c \in retry[t] /\ req[t][c].status = "processing"
                /\ req'[t][c].status # "processing") =>
              \/ Acknowledged(t, c)
              \/ AppendFailed(t, c)
              \/ lifecycle'[t] = "SUSPENDED"
      ]_vars

\* C10 witness: the retry of a message whose append failed has been applied.
C10_Witness ==
    \E t \in AllTeams, c \in Clients :
        /\ c \in retry[t]
        /\ req[t][c].status = "applied"
        /\ read(store[t], req[t][c].key) =
              [value |-> req[t][c].value, ver |-> req[t][c].baseVer + 1]

\* The step answers a request of team t: a version check, a websocket opened
\* and given the current state, or any message sent.
Served(t) ==
    \/ \E c \in Clients : Checked(t, c)
    \/ sessions[t] # sessions'[t] /\ sessions[t] \subseteq sessions'[t]
    \/ \E x \in out' : x.team = t

\* C11: a request is answered only by a live (WARM) instance whose store is
\* the replay of the whole list of edits: no version check, no snapshot and
\* no message at all comes from an instance that is cold, suspended or still
\* replaying, and the store a check or a snapshot reads is never empty or
\* partial while the list holds edits.
C11_ServedWhenWarm ==
    [][\A t \in AllTeams :
        Served(t) =>
            /\ lifecycle[t] = "WARM"
            /\ hydr[t] = 0
            /\ store[t] = replay(log[t])
            /\ \A x \in out' : x.type = "snapshot" =>
                  \E i \in 1..Len(log[t]) :
                      log[t][i] = [key |-> x.key, value |-> x.value, ver |-> x.ver]
      ]_vars

\* C11 witness: a message waits at an instance whose replay has not reached
\* the end of the list, and the version check would answer it differently
\* on the partial store than on the whole list.
C11_Witness ==
    \E t \in AllTeams, c \in Clients :
        /\ lifecycle[t] = "HYDRATING"
        /\ hydr[t] < Len(log[t])
        /\ req[t][c].status = "pending"
        /\ staleWrite(store[t], req[t][c]) # staleWrite(replay(log[t]), req[t][c])

\* The applied messages of a write of client c that carry the changed entry,
\* one per open websocket.
appliedTo(t, c) ==
    {[team |-> t, to |-> d, type |-> "applied", key |-> msgOf(t, c).key,
      value |-> msgOf(t, c).value, ver |-> msgOf(t, c).baseVer + 1] :
        d \in sessions[t]}

\* C12 as stated, and less: the step that tells an accepted write sends the
\* applied message {key, value, baseVer + 1} to every open websocket of the
\* team, the writer's included, and sends no other key.
C12_Original ==
    [][\A t \in AllTeams, c \in Clients :
        Acknowledged(t, c) => out' = appliedTo(t, c)
      ]_vars

\* Client c of team t opens its websocket in this step.
Subscribed(t, c) == c \notin sessions[t] /\ c \in sessions'[t]

\* The latest record of key k among the edits, as an entry {value, ver}.
latest(edits, k) ==
    LET at == {i \in 1..Len(edits) : edits[i].key = k}
        last == CHOOSE i \in at : \A j \in at : j <= i
    IN  [value |-> edits[last].value, ver |-> edits[last].ver]

\* C13: the answer to a subscribe is exactly one message {key, value, version}
\* per key written into the store, equal to the store's current entry of the
\* key, which is the latest edit of the key in the list: no superseded
\* value, no key never written, no rejected or failed write, nothing else.
C13_Snapshot ==
    [][\A t \in AllTeams, c \in Clients :
        Subscribed(t, c) =>
            LET everSet == {log[t][i].key : i \in 1..Len(log[t])}
            IN  /\ \A x \in out' : x.team = t /\ x.to = c /\ x.type = "snapshot"
                /\ {x.key : x \in out'} = everSet
                /\ Cardinality(out') = Cardinality(everSet)
                /\ \A x \in out' :
                      /\ [value |-> x.value, ver |-> x.ver] = read(store[t], x.key)
                      /\ [value |-> x.value, ver |-> x.ver] = latest(log[t], x.key)
                /\ store'[t] = store[t]
                /\ log'[t] = log[t]
      ]_vars

\* C13 witness: a snapshot of one key at version 2, whose first value was
\* superseded, given after both edits of the key were accepted.
C13_Witness ==
    \E t \in AllTeams :
        /\ Len(log[t]) = 2
        /\ log[t][1].key = log[t][2].key
        /\ log[t][1].value # log[t][2].value
        /\ Cardinality(out) = 1
        /\ \E x \in out :
              /\ x.type = "snapshot"
              /\ x.ver = 2
              /\ x.value = log[t][2].value

\* Client c of team t closes its websocket in this step.
Unsubscribed(t, c) == c \in sessions[t] /\ c \notin sessions'[t]

\* The message of client c has passed the version check, its handling is
\* under way and the websocket of c is closed.
Orphaned(t, c) ==
    /\ req[t][c].status = "processing"
    /\ cur[t].client = c
    /\ c \notin sessions[t]

instance(u) ==
    <<store[u], log[u], lifecycle[u], sessions[u], req[u], cur[u], hydr[u]>>

\* C15: every step is the step of one team: the store, the list of edits,
\* the lifecycle, the websockets and the messages of every other team stay as
\* they are, and every message the step sends is a message of that team, to
\* a client whose websocket is open in that team, about that team's store.
C15_TeamIsolation ==
    [][\E t \in AllTeams :
        /\ \A u \in AllTeams \ {t} : instance(u)' = instance(u)
        /\ \A x \in out' :
              /\ x.team = t
              /\ x.to \in sessions'[t]
              /\ x.type \in {"applied", "snapshot"} =>
                    [value |-> x.value, ver |-> x.ver] = read(store'[t], x.key)
      ]_vars

\* C15 witness: a write of team t1 was just sent to t1's client while team t2
\* is live with an open websocket and a different store.
C15_Witness ==
    /\ teams = AllTeams
    /\ lifecycle["t2"] = "WARM"
    /\ sessions["t2"] # {}
    /\ req["t2"]["c1"].status = "rejected"
    /\ store["t1"] # store["t2"]
    /\ out # {}
    /\ \A x \in out : x.team = "t1" /\ x.type = "applied"

\* A message client c of team t has applied before reaches it once more.
Redelivered(t, c) ==
    /\ wire[t][c] # << >>
    /\ wire'[t][c] = Tail(wire[t][c])
    /\ c \in sessions'[t]
    /\ Head(wire[t][c]) \in got[t][c]

\* C16 as stated: a client applies every applied or snapshot message as a
\* full replacement of the key's entry, and a message it has already applied,
\* delivered once more, leaves the client's entry of that key equal to what
\* the client held before, so never at a lower version than before.
C16_Original ==
    [][\A t \in AllTeams, c \in Clients :
        Redelivered(t, c) =>
            /\ local'[t][c] = local[t][c]
            /\ \A k \in DOMAIN local[t][c] :
                  currentVer(local'[t][c], k) >= currentVer(local[t][c], k)
      ]_vars

\* C17 as stated: a run of the deploy script that reaches its end leaves
\* pages/.git with the content it had before the run and no
\* .git.pages.backup; no step removes pages/.git; when pages/, pages/.git or
\* dist/ is missing or the build fails the script exits with code 1, and at
\* that exit nothing in pages/ has been removed or copied.
C17_Original ==
    [][/\ dpc' = "done" =>
              /\ gitFile \in DOMAIN pages0.files
              /\ gitFile \in DOMAIN pages'.files
              /\ pages'.files[gitFile] = pages0.files[gitFile]
              /\ gitFileBackup' = Absent
       /\ gitFile \in DOMAIN pages.files =>
              /\ gitFile \in DOMAIN pages'.files
              /\ IsDir(pages'.files[gitFile]) = IsDir(pages.files[gitFile])
       /\ (\/ dpc = "start" /\ ~ pages.exists
           \/ dpc = "checkGit" /\ gitFile \notin DOMAIN pages.files
           \/ dpc = "buildFailed"
           \/ dpc = "checkDist" /\ ~ dist.exists) <=> dpc' = "exit1"
       /\ dpc' = "exit1" => pages' = pages0 /\ gitFileBackup' = gitFileBackup
       /\ pages' # pages =>
              /\ dpc \in {"clean", "copy", "nojekyll", "restore"}
              /\ pages0.exists /\ gitFile \in DOMAIN pages0.files /\ dist.exists
      ]_vars

\* C18 as stated: after a run with --dry-run every image has its original
\* content, no .backup file made for an image remains, whether the
\* compressed version was smaller, was not smaller or compression raised an
\* error, and compressed bytes were written only under .compacted-assets.
C18_Original ==
    (cpc = "done" /\ opts.dryRun) =>
        /\ \A i \in Images :
              /\ disk[i].file = "original"
              /\ disk[i].backup = Absent
        /\ \A path \in written : under(outputDir, path)

\* The lifecycle moves the instance of a team may make.
Moves ==
    {<<"COLD", "HYDRATING">>, <<"HYDRATING", "WARM">>, <<"WARM", "SUSPENDED">>,
     <<"SUSPENDED", "HYDRATING">>}

\* C19: the lifecycle of an instance changes only COLD -> HYDRATING,
\* HYDRATING -> WARM, WARM -> SUSPENDED and SUSPENDED -> HYDRATING; it turns
\* WARM only from HYDRATING with the whole list of edits replayed, a woken
\* instance starts from an empty store, and a message passes the version
\* check, an edit is appended and a write is acknowledged only while WARM.
C19_Lifecycle ==
    [][\A t \in AllTeams :
        /\ lifecycle'[t] # lifecycle[t] => <<lifecycle[t], lifecycle'[t]>> \in Moves
        /\ (lifecycle[t] # "WARM" /\ lifecycle'[t] = "WARM") =>
              /\ lifecycle[t] = "HYDRATING"
              /\ store'[t] = replay(log[t])
        /\ (lifecycle[t] # "HYDRATING" /\ lifecycle'[t] = "HYDRATING") =>
              store'[t] = EmptyStore
        /\ \A c \in Clients :
              (Accepted(t, c) \/ Acknowledged(t, c)) =>
                  lifecycle[t] = "WARM" /\ lifecycle'[t] = "WARM"
        /\ (log'[t] # log[t] \/ (store'[t] # store[t] /\ store'[t] # EmptyStore)) =>
              lifecycle[t] \in {"WARM", "HYDRATING"} /\ lifecycle'[t] = lifecycle[t]
      ]_vars

\* C19 witness: an instance that was live with a written store and was
\* garbage collected has replayed its whole list and is about to serve again.
C19_Witness ==
    \E t \in AllTeams :
        /\ lifecycle[t] = "HYDRATING"
        /\ susp[t].store # EmptyStore
        /\ Len(log[t]) >= 1
        /\ hydr[t] = Len(log[t])
        /\ store[t] = replay(log[t])

\* The list a is the beginning of the list b.
isPrefix(a, b) == Len(a) <= Len(b) /\ SubSeq(b, 1, Len(a)) = a

\* The records of one key stand in the list in the order of their versions.
inOrder(edits) ==
    \A i \in 1..Len(edits), j \in 1..Len(edits) :
        (i < j /\ edits[i].key = edits[j].key) => edits[i].ver < edits[j].ver

\* C20: across every step the list of edits before is the beginning of the
\* list after; it grows only when a message that passed the version check is
\* appended, by the one record {key, value, baseVer + 1} of that message, at
\* its end, in the step that puts the write in the store; rejection, failed
\* append, subscribe, disconnect, broadcast, garbage collection and
\* rehydration leave it as it is; the records of one key stand in the order
\* they were accepted.
C20_AppendOnly ==
    [][\A t \in AllTeams :
        /\ isPrefix(log[t], log'[t])
        /\ Len(log'[t]) <= Len(log[t]) + 1
        /\ log'[t] # log[t] =>
              /\ cur[t].stage = "checked" /\ cur'[t].stage = "stored"
              /\ lifecycle[t] = "WARM"
              /\ LET m == msgOf(t, cur[t].client)
                 IN  /\ log'[t][Len(log'[t])] =
                           [key |-> m.key, value |-> m.value, ver |-> m.baseVer + 1]
                     /\ \A i \in 1..Len(log[t]) :
                           log[t][i].key = m.key => log[t][i].ver <= m.baseVer
        /\ (cur[t].stage = "checked" /\ cur'[t].stage = "stored") =>
              Len(log'[t]) = Len(log[t]) + 1
        /\ (\/ \E c \in Clients : Rejected(t, c) \/ AppendFailed(t, c)
                                   \/ Subscribed(t, c) \/ Unsubscribed(t, c)
                                   \/ Acknowledged(t, c)
            \/ lifecycle'[t] # lifecycle[t]
            \/ hydr'[t] # hydr[t]
            \/ cur[t].stage # "checked") => log'[t] = log[t]
        /\ inOrder(log'[t])
      ]_vars

\* C20 witness: a second edit of a key was just appended behind the first.
C20_Witness ==
    \E t \in AllTeams :
        /\ cur[t].stage = "stored"
        /\ Len(log[t]) = 2
        /\ log[t][1].key = log[t][2].key
        /\ log[t][1].ver = 1
        /\ log[t][2].ver = 2

\* ---------------------------------------------------------------- C22

\* The records of key k, in the order they stand in the list.
recordsOf(edits, k) == SelectSeq(edits, LAMBDA e : e.key = k)

\* The records of every key carry the versions 1, 2, ..., n in list order.
wellFormed(edits) ==
    \A k \in Keys :
        \A i \in 1..Len(recordsOf(edits, k)) : recordsOf(edits, k)[i].ver = i

\* The write a record stands for: based on the version before the record's.
writeOf(e) == [key |-> e.key, value |-> e.value, baseVer |-> e.ver - 1]

NoneRejected == [store |-> EmptyStore, rejected |-> 0]

\* A replay that runs the version check on every record, as the handling of a
\* message does: a stale record is rejected and counted, another is put in
\* place by setValue.
RECURSIVE replayChecked(_, _)
replayChecked(r, edits) ==
    IF edits = << >> THEN r
    ELSE LET m == writeOf(Head(edits))
         IN  replayChecked(
                 IF staleWrite(r.store, m)
                 THEN [store |-> r.store, rejected |-> r.rejected + 1]
                 ELSE [store |-> setValue(r.store, m), rejected |-> r.rejected],
                 Tail(edits))

\* Both replays of the list give the same store, with no record rejected.
sameReplay(edits) ==
    replayChecked(NoneRejected, edits) = [store |-> replay(edits), rejected |-> 0]

\* C22 as stated: in every reachable state in which the instance has a
\* store (it is live or rehydrating) the records of every key carry the
\* versions 1..n, n is the version the store holds for the key, and both
\* replays agree.
C22_Original ==
    \A t \in AllTeams :
        /\ wellFormed(log[t])
        /\ lifecycle[t] \in {"WARM", "HYDRATING"} =>
              \A k \in Keys : Len(recordsOf(log[t], k)) = currentVer(store[t], k)
        /\ sameReplay(log[t])

\* C22: in every reachable state the records of every key in the list of
\* edits carry the versions 1, 2, ..., n in list order, and replaying the list
\* with and without the version check gives the same store with every record
\* accepted; n is the store's version of the key while the instance is live;
\* while the instance is rehydrating the store holds the versions replayed so
\* far, and while it is evicted the store holds nothing.
C22_LogWellFormed ==
    \A t \in AllTeams :
        /\ wellFormed(log[t])
        /\ sameReplay(log[t])
        /\ \A k \in Keys :
              LET n == Len(recordsOf(log[t], k))
              IN  /\ lifecycle[t] = "WARM" => currentVer(store[t], k) = n
                  /\ lifecycle[t] = "HYDRATING" =>
                        currentVer(store[t], k) =
                            Len(recordsOf(SubSeq(log[t], 1, hydr[t]), k))
                  /\ lifecycle[t] \in {"COLD", "SUSPENDED"} =>
                        currentVer(store[t], k) = 0

\* C22 witness: a live instance at rest whose list holds two records of one
\* key, versions 1 and 2, and whose store holds version 2 of that key.
C22_Witness ==
    \E t \in AllTeams, k \in Keys :
        /\ lifecycle[t] = "WARM"
        /\ cur[t] = NoCur
        /\ Len(recordsOf(log[t], k)) = 2
        /\ recordsOf(log[t], k)[2].ver = 2
        /\ currentVer(store[t], k) = 2
        /\ sameReplay(log[t])

\* ---------------------------------------------------------------- C21

\* The client's mutate has its outcome: applied, rejected or failed append.
Outcome == {"applied", "rejected", "failed"}

\* In this step the mutate of client c keeps to one outcome: an outcome once
\* given stays until the client's next mutate; a waiting message is accepted
\* or rejected by the check, never dropped; an accepted message ends applied
\* or with a failed append, never rejected; the client is told the outcome it
\* got and no other.
OneOutcome(t, c) ==
    LET s == req[t][c].status
        n == req'[t][c].status
        told == {x.type : x \in {y \in out' : y.team = t /\ y.to = c}}
    IN  /\ s \in Outcome => (req'[t][c] = req[t][c] \/ n = "pending")
        /\ s = "pending" => n \in {"pending", "processing", "rejected"}
        /\ s = "processing" => n \in {"processing", "applied", "failed"}
        /\ (s = "pending" /\ n = "rejected") =>
              told = IF c \in sessions[t] THEN {"rejected"} ELSE {}
        /\ (s = "processing" /\ n = "applied") =>
              told = IF c \in sessions[t] THEN {"applied"} ELSE {}
        /\ (s = "processing" /\ n = "failed") =>
              told = IF c \in sessions[t] THEN {"failed"} ELSE {}

Quiet(t) ==
    /\ cur[t] = NoCur
    /\ \A d \in Clients : req[t][d].status \notin InFlight

\* Client c shows, for every key, the entry the store of its team holds.
InSync(t, c) == \A k \in Keys : read(local[t][c], k) = read(store[t], k)

\* C23 as stated: a client whose websocket is open, at a live instance with
\* no mutate in flight and no message under way to it, shows for every key
\* the entry the store holds.
C23_Original ==
    \A t \in AllTeams, c \in Clients :
        (c \in sessions[t] /\ lifecycle[t] = "WARM" /\ Quiet(t)
            /\ wire[t][c] = << >>) => InSync(t, c)

====
